---- MODULE Spec2Model ----
(***************************************************************************)
(* Model of the three interactive converters of convert_everything:        *)
(* AudioConverter (audio_convert.py), ImageConverter (image_convert.py)    *)
(* and VideoConverter (video_convert.py).  One run() of one converter is   *)
(* modelled: the prompts, the batch loop and the single-file conversion.   *)
(*                                                                         *)
(* Text is modelled as a sequence of tokens.  A token is one character     *)
(* ("a", ".", "7", "-") or a dot-free chunk of characters ("mp3").  The     *)
(* operators that look for the dot (stem, glob) or for digits (int) work   *)
(* on these sequences as the Python code works on the characters.          *)
(***************************************************************************)
EXTENDS Integers, Sequences, FiniteSets, TLC

VARIABLES
    kind,           \* which converter runs: "audio", "image" or "video"
    dir,            \* names of the files in self.input_dir
    pc,             \* position of run()
    last_msg,       \* the line printed last
    interrupted,    \* a KeyboardInterrupt was delivered
    input_format,   \* run(): input_format  (an extension, with its dot)
    output_format,  \* run(): output_format (a format id, no dot)
    settings,       \* run(): settings (a dict: a function on its keys)
    settings_calls, \* how often get_audio_settings/get_video_settings ran
    naming_mode,    \* run(): naming_mode (audio only)
    mode,           \* run(): mode
    batch_calls,    \* how often convert_all_* was invoked
    input_files,    \* convert_all_*: input_files, in enumeration order
    idx,            \* convert_all_*: number of loop iterations done
    counter,        \* convert_all_audio: counter
    success_count,  \* convert_all_*: success_count
    calls,          \* every convert_single_* call so far, in order
    last,           \* what the last convert_single_* call did
    written,        \* output paths a completed export has written
    open_readers,   \* decoded-clip readers that are open
    summary,        \* <<success_count, total>> once the summary is printed
    ffmpeg_env,     \* what __init__ finds: the --ffmpeg flag, os.name, PATH, files
    ffmpeg_path,    \* self.ffmpeg_path
    warned          \* __init__ printed the "ffmpeg not found" warning

vars == <<kind, dir, pc, last_msg, interrupted, input_format, output_format,
          settings, settings_calls, naming_mode, mode, batch_calls,
          input_files, idx, counter, success_count, calls, last, written,
          open_readers, summary, ffmpeg_env, ffmpeg_path, warned>>

ctorVars == <<ffmpeg_env, ffmpeg_path, warned>>
promptVars == <<input_format, output_format, settings, settings_calls,
                naming_mode, mode>>
batchVars == <<batch_calls, input_files, idx, counter, success_count, calls,
               last, written, open_readers, summary>>

----------------------------------------------------------------------------
(* Bounds *)

\* the largest number of files the input directory holds
MaxFiles == 2

\* the largest number of ffmpeg executables installed on the machine
MaxExes == 2

----------------------------------------------------------------------------
(* Python values *)

\* None, where the other values of the slot are positive integers
None == 0

\* settings = {}
EmptyDict == <<>>

\* settings[key] = value
SetItem(d, key, value) == (key :> value) @@ d

\* settings.get(key, default)
Get(d, key, default) == IF key \in DOMAIN d THEN d[key] ELSE default

----------------------------------------------------------------------------
(* Text: int(), str(), Path.stem, glob *)

Digits == {"0", "1", "2", "3", "4", "5", "6", "7", "8", "9"}

DigitVal(c) ==
    CASE c = "0" -> 0 [] c = "1" -> 1 [] c = "2" -> 2 [] c = "3" -> 3
      [] c = "4" -> 4 [] c = "5" -> 5 [] c = "6" -> 6 [] c = "7" -> 7
      [] c = "8" -> 8 [] c = "9" -> 9

DigitChar(n) ==
    CASE n = 0 -> "0" [] n = 1 -> "1" [] n = 2 -> "2" [] n = 3 -> "3"
      [] n = 4 -> "4" [] n = 5 -> "5" [] n = 6 -> "6" [] n = 7 -> "7"
      [] n = 8 -> "8" [] n = 9 -> "9"

RECURSIVE DecVal(_)
DecVal(s) ==
    IF s = <<>> THEN 0
    ELSE DecVal(SubSeq(s, 1, Len(s) - 1)) * 10 + DigitVal(s[Len(s)])

AllDigits(s) == s # <<>> /\ \A i \in 1..Len(s) : s[i] \in Digits

\* int(line): ok is FALSE where Python raises ValueError
ParseInt(s) ==
    IF AllDigits(s) THEN [ok |-> TRUE, val |-> DecVal(s)]
    ELSE IF s # <<>> /\ s[1] = "-" /\ AllDigits(Tail(s))
         THEN [ok |-> TRUE, val |-> 0 - DecVal(Tail(s))]
    ELSE IF s # <<>> /\ s[1] = "+" /\ AllDigits(Tail(s))
         THEN [ok |-> TRUE, val |-> DecVal(Tail(s))]
    ELSE [ok |-> FALSE, val |-> 0]

\* str(n) for n >= 0, as the f-string f"{counter}" formats it
RECURSIVE ToStr(_)
ToStr(n) ==
    IF n < 10 THEN <<DigitChar(n)>>
    ELSE ToStr(n \div 10) \o <<DigitChar(n % 10)>>

\* name.rfind("."), 1-based; 0 when there is no dot
RFindDot(name) ==
    LET dots == {i \in 1..Len(name) : name[i] = "."}
    IN  IF dots = {} THEN 0 ELSE CHOOSE i \in dots : \A j \in dots : j <= i

\* PurePath.suffix: the last dot and what follows it, unless the dot is the
\* first or the last character of the name
suffix(name) ==
    LET i == RFindDot(name)
    IN  IF 1 < i /\ i < Len(name) THEN SubSeq(name, i, Len(name)) ELSE <<>>

\* PurePath.stem: the name without its suffix
stem(name) ==
    LET i == RFindDot(name)
    IN  IF 1 < i /\ i < Len(name) THEN SubSeq(name, 1, i - 1) ELSE name

EndsWith(name, ext) ==
    /\ Len(name) >= Len(ext)
    /\ SubSeq(name, Len(name) - Len(ext) + 1, Len(name)) = ext

\* self.input_dir / name, self.output_dir / name
Path(d, name) == [dir |-> d, name |-> name]

----------------------------------------------------------------------------
(* Format Registry *)

Kinds == {"audio", "image", "video"}

\* self.supported_formats: the input extensions, in menu order
supported_formats(k) ==
    CASE k = "audio" -> << <<".", "m4a">>, <<".", "mp3">>, <<".", "wav">>,
                           <<".", "flac">>, <<".", "ogg">>, <<".", "aac">>,
                           <<".", "wma">>, <<".", "mp4">> >>
      [] k = "image" -> << <<".", "webp">>, <<".", "jpg">>, <<".", "jpeg">>,
                           <<".", "jfif">>, <<".", "png">>, <<".", "bmp">>,
                           <<".", "tiff">>, <<".", "gif">> >>
      [] k = "video" -> << <<".", "mp4">>, <<".", "avi">>, <<".", "mov">>,
                           <<".", "mkv">>, <<".", "webm">>, <<".", "flv">>,
                           <<".", "wmv">>, <<".", "m4v">> >>

\* self.output_formats: the output format ids, in menu order
output_formats(k) ==
    CASE k = "audio" -> <<"mp3", "wav", "m4a", "flac", "ogg", "aac", "pcm">>
      [] k = "image" -> <<"png", "jpg", "jpeg", "webp", "bmp">>
      [] k = "video" -> <<"gif", "mp4", "avi", "mov", "webm">>

----------------------------------------------------------------------------
(* The environment: the input directory and what the user types *)

\* The file names an input directory is drawn from: for the first extension
\* e of the converter a plain name, a name with two dots, the bare
\* extension (a dot file) and the extension twice; and one file of the
\* second extension.
DirNames(k) ==
    LET e1 == supported_formats(k)[1]
        e2 == supported_formats(k)[2]
    IN  { <<"a">> \o e1, <<"a", ".", "b">> \o e1, e1, e1 \o e1, <<"a">> \o e2 }

Dirs(k) == {d \in SUBSET DirNames(k) : Cardinality(d) <= MaxFiles}

\* lines typed at a numbered menu
MenuLines == {<<>>, <<"x">>} \cup {<<d>> : d \in Digits}
\* lines typed at the input-format and output-format menus
FormatLines == {<<>>, <<"x">>, <<"0">>, <<"1">>, <<"2">>, <<"7">>, <<"9">>}
\* lines typed at the naming-mode menu
NamingLines == {<<>>, <<"x">>, <<"1">>, <<"2">>, <<"5">>}
\* lines typed at the sample-rate prompt
RateLines == {<<>>, <<"x">>, <<"8", "0", "0", "0">>, <<"-", "5">>}
\* lines typed at the bitrate prompt
BitrateLines == {<<>>, <<"1", "2", "8">>}
\* lines typed at the frames-per-second prompt
FpsLines == {<<>>, <<"x">>, <<"5">>}
\* lines typed at the custom width and height prompts
WidthLines == {<<"x">>, <<"3", "2", "0">>}
HeightLines == {<<"x">>, <<"0">>, <<"2", "4", "0">>}
\* lines typed at the single-file filename prompt
FilenameLines == {<<>>, <<"a">>, <<"z">>}

----------------------------------------------------------------------------
(* Initial state: a converter was constructed, run() has not started *)

\* the record of a convert_single_* call before any call was made
NoCall ==
    [exists |-> FALSE, error |-> "none", loaded |-> FALSE,
     returned |-> FALSE, raised |-> FALSE,
     input |-> Path("input", <<>>), output |-> Path("output", <<>>),
     output_format |-> "", settings |-> EmptyDict,
     sample_width |-> 0, src_size |-> <<0, 0>>, out_size |-> <<0, 0>>,
     src_mode |-> "", save_mode |-> "",
     clip |-> "None", opened |-> {}, closed |-> {}]

\* _find_ffmpeg returned None
NoPath == ""

\* the directory the --ffmpeg flag names, the directory on PATH, and the
\* directories ProgramFiles can make the third common path
FlagDir == "F:/tools"
PathDir == "/usr/bin"
ProgramFilesBins == {"C:/Program Files/ffmpeg/bin", "D:/Apps/ffmpeg/bin"}

\* common_paths
common_paths(env) ==
    <<"C:/ffmpeg/bin", "C:/Program Files/ffmpeg/bin", env.program_files_bin>>

\* 'ffmpeg.exe' if os.name == 'nt' else 'ffmpeg'
ffmpeg_exe(env) == IF env.os_name = "nt" THEN "ffmpeg.exe" ELSE "ffmpeg"

\* (directory / name).exists()
HasFile(env, d, name) == <<d, name>> \in env.files

\* the first entry of a list of directories that holds the named file, or
\* NoPath
FirstWith(env, dirs, name) ==
    LET hits == {i \in 1..Len(dirs) : HasFile(env, dirs[i], name)}
    IN  IF hits = {} THEN NoPath
        ELSE dirs[CHOOSE i \in hits : \A j \in hits : i <= j]

\* shutil.which('ffmpeg'): the directory of the first match on PATH
which(env) == FirstWith(env, env.search_path, ffmpeg_exe(env))

\* find_ffmpeg with the search path looked at before the flag
find_ffmpegMut(env) ==
    IF which(env) # NoPath THEN which(env)
    ELSE IF /\ env.custom_path # NoPath
            /\ \/ HasFile(env, env.custom_path, "ffmpeg")
               \/ HasFile(env, env.custom_path, "ffmpeg.exe")
    THEN env.custom_path
    ELSE FirstWith(env, common_paths(env), ffmpeg_exe(env))

\* AudioConverter._find_ffmpeg
find_ffmpeg(env) ==
    IF /\ env.custom_path # NoPath
       /\ \/ HasFile(env, env.custom_path, "ffmpeg")
          \/ HasFile(env, env.custom_path, "ffmpeg.exe")
    THEN env.custom_path
    ELSE IF which(env) # NoPath THEN which(env)
    ELSE FirstWith(env, common_paths(env), ffmpeg_exe(env))

\* the machines a converter is constructed on
FfmpegDirs ==
    {FlagDir, PathDir, "C:/ffmpeg/bin"} \cup ProgramFilesBins
FfmpegEnvs ==
    [os_name : {"nt", "posix"},
     custom_path : {NoPath, FlagDir},
     search_path : { <<>>, <<PathDir>>, <<PathDir, FlagDir>> },
     program_files_bin : ProgramFilesBins,
     files : {f \in SUBSET (FfmpegDirs \X {"ffmpeg", "ffmpeg.exe"}) :
                Cardinality(f) <= MaxExes}]

\* a machine with ffmpeg on the search path and no --ffmpeg flag
PlainEnv ==
    [os_name |-> "posix", custom_path |-> NoPath,
     search_path |-> <<PathDir>>,
     program_files_bin |-> "C:/Program Files/ffmpeg/bin",
     files |-> { <<PathDir, "ffmpeg">> }]

\* what no step of run() has touched yet
Fresh ==
    /\ last_msg = ""
    /\ interrupted = FALSE
    /\ input_format = <<>>
    /\ output_format = ""
    /\ settings = EmptyDict
    /\ settings_calls = 0
    /\ naming_mode = 0
    /\ mode = 0
    /\ batch_calls = 0
    /\ input_files = <<>>
    /\ idx = 0
    /\ counter = 0
    /\ success_count = 0
    /\ calls = <<>>
    /\ last = NoCall
    /\ written = {}
    /\ open_readers = {}
    /\ summary = <<>>

\* a converter constructed on PlainEnv; only AudioConverter looks for ffmpeg
Init ==
    /\ kind \in Kinds
    /\ dir \in Dirs(kind)
    /\ pc = "start"
    /\ ffmpeg_env = PlainEnv
    /\ ffmpeg_path = IF kind = "audio" THEN find_ffmpeg(PlainEnv) ELSE NoPath
    /\ warned = FALSE
    /\ Fresh

\* main() before AudioConverter(...) is constructed, on any machine
InitConstruct ==
    /\ kind = "audio"
    /\ dir = {}
    /\ pc = "new"
    /\ ffmpeg_env \in FfmpegEnvs
    /\ ffmpeg_path = NoPath
    /\ warned = FALSE
    /\ Fresh

\* AudioConverter.__init__: the ffmpeg lookup and the warning
construct ==
    /\ pc = "new"
    /\ ffmpeg_path' = find_ffmpeg(ffmpeg_env)
    /\ warned' = (ffmpeg_path' = NoPath)
    /\ last_msg' = IF ffmpeg_path' = NoPath
                   THEN "Warning: ffmpeg not found." ELSE last_msg
    /\ pc' = "start"
    /\ UNCHANGED <<kind, dir, interrupted, ffmpeg_env>>
    /\ UNCHANGED promptVars
    /\ UNCHANGED batchVars

----------------------------------------------------------------------------
(* Prompts.  One action is one pass of a prompt's while True loop: the     *)
(* line is read, and the loop returns a value, prints a hint and asks      *)
(* again, or is interrupted.                                               *)

\* Cancel with a handler that exits without printing anything
CancelSilent ==
    /\ interrupted' = TRUE
    /\ pc' = "exited"
    /\ UNCHANGED <<ctorVars, kind, dir, last_msg>>
    /\ UNCHANGED promptVars

\* Cancel with the handler printing the message and not leaving the loop
CancelMut ==
    /\ interrupted' = TRUE
    /\ last_msg' = "Operation cancelled."
    /\ UNCHANGED <<ctorVars, kind, dir, pc>>
    /\ UNCHANGED promptVars

\* except KeyboardInterrupt: print("\nOperation cancelled."); sys.exit(0)
Cancel ==
    /\ interrupted' = TRUE
    /\ last_msg' = "Operation cancelled."
    /\ pc' = "exited"
    /\ UNCHANGED <<ctorVars, kind, dir>>
    /\ UNCHANGED promptVars

\* a hint is printed and the while True loop asks again
Reprompt(hint) ==
    /\ last_msg' = hint
    /\ UNCHANGED <<ctorVars, kind, dir, pc, interrupted>>
    /\ UNCHANGED promptVars

\* the prompt was answered and run() goes on at next
Answered(prompt, next) ==
    /\ last_msg' = prompt
    /\ pc' = next
    /\ UNCHANGED <<ctorVars, kind, dir, interrupted>>

\* run(): banner, open_directories()
Run ==
    /\ pc = "start"
    /\ Answered("=== Converter ===", "input_format")
    /\ UNCHANGED promptVars
    /\ UNCHANGED batchVars

get_input_format ==
    /\ pc = "input_format"
    /\ UNCHANGED batchVars
    /\ \/ \E line \in FormatLines :
            LET choice == ParseInt(line)
                n == Len(supported_formats(kind))
            IN  IF ~choice.ok THEN Reprompt("Please enter a valid number.")
                ELSE IF 1 <= choice.val /\ choice.val <= n
                THEN /\ input_format' = supported_formats(kind)[choice.val]
                     /\ Answered("Select input format: ", "output_format")
                     /\ UNCHANGED <<output_format, settings, settings_calls,
                                    naming_mode, mode>>
                ELSE Reprompt("Invalid choice.")
       \/ Cancel

get_output_format ==
    /\ pc = "output_format"
    /\ UNCHANGED batchVars
    /\ \/ \E line \in FormatLines :
            LET choice == ParseInt(line)
                n == Len(output_formats(kind))
            IN  IF ~choice.ok THEN Reprompt("Please enter a valid number.")
                ELSE IF 1 <= choice.val /\ choice.val <= n
                THEN /\ output_format' = output_formats(kind)[choice.val]
                     /\ Answered("Select output format: ",
                                 IF kind = "image" THEN "mode" ELSE "settings")
                     /\ UNCHANGED <<input_format, settings, settings_calls,
                                    naming_mode, mode>>
                ELSE Reprompt("Invalid choice.")
       \/ Cancel

\* formats that get a bitrate prompt
BitrateFormats == {"mp3", "m4a", "aac", "ogg"}

\* where run() goes on once the settings are returned
AfterSettings == IF kind = "audio" THEN "naming_mode" ELSE "mode"

\* get_audio_settings / get_video_settings: settings = {} and the branch on
\* the output format
get_settings ==
    /\ pc = "settings"
    /\ settings' = EmptyDict
    /\ settings_calls' = settings_calls + 1
    /\ pc' = IF kind = "audio"
             THEN IF output_format = "pcm" THEN "pcm_format" ELSE "channels"
             ELSE IF output_format = "gif" THEN "fps" ELSE AfterSettings
    /\ last_msg' = IF kind = "audio"
                   THEN IF output_format = "pcm" THEN "PCM Settings:"
                        ELSE "Audio Channel Settings:"
                   ELSE last_msg
    /\ UNCHANGED <<ctorVars, kind, dir, interrupted>>
    /\ UNCHANGED <<input_format, output_format, naming_mode, mode>>
    /\ UNCHANGED batchVars

\* pcm_formats = {1: 'u8', 2: 's8', 3: 's16', 4: 's32'}
pcm_formats ==
    (1 :> "u8") @@ (2 :> "s8") @@ (3 :> "s16") @@ (4 :> "s32")

\* get_audio_settings: the bit depth loop
get_pcm_format ==
    /\ pc = "pcm_format"
    /\ UNCHANGED batchVars
    /\ \/ \E line \in MenuLines :
            LET choice == ParseInt(line)
            IN  IF ~choice.ok THEN Reprompt("Please enter a valid number.")
                ELSE IF choice.val \in DOMAIN pcm_formats
                THEN /\ settings' = SetItem(settings, "pcm_format",
                                            pcm_formats[choice.val])
                     /\ Answered("Select bit depth (1-4): ", "sample_rate")
                     /\ UNCHANGED <<input_format, output_format,
                                    settings_calls, naming_mode, mode>>
                ELSE Reprompt("Please select 1-4.")
       \/ Cancel

\* the sample rate stored when the line is empty
DefaultSampleRate == 16000

\* get_audio_settings: the sample rate loop
get_sample_rate ==
    /\ pc = "sample_rate"
    /\ UNCHANGED batchVars
    /\ \/ \E line \in RateLines :
            LET rate == ParseInt(line)
            IN  IF line # <<>> /\ ~rate.ok
                THEN Reprompt("Please enter a valid number.")
                ELSE /\ settings' = SetItem(settings, "sample_rate",
                            IF line # <<>> THEN rate.val ELSE DefaultSampleRate)
                     /\ Answered("Enter sample rate in Hz (default 16000): ",
                                 IF output_format \in BitrateFormats
                                 THEN "bitrate" ELSE AfterSettings)
                     /\ UNCHANGED <<input_format, output_format,
                                    settings_calls, naming_mode, mode>>
       \/ Cancel

\* get_audio_settings: the channels loop; an empty line counts as "3"
get_channels ==
    /\ pc = "channels"
    /\ UNCHANGED batchVars
    /\ \/ \E line \in MenuLines :
            LET choice == ParseInt(IF line # <<>> THEN line ELSE <<"3">>)
            IN  IF ~choice.ok THEN Reprompt("Please enter a valid number.")
                ELSE /\ settings' = SetItem(settings, "channels",
                            IF choice.val = 1 THEN 1
                            ELSE IF choice.val = 2 THEN 2 ELSE None)
                     /\ Answered("Select channels (1-3, default 3): ",
                                 IF output_format \in BitrateFormats
                                 THEN "bitrate" ELSE AfterSettings)
                     /\ UNCHANGED <<input_format, output_format,
                                    settings_calls, naming_mode, mode>>
       \/ Cancel

\* get_audio_settings: the bitrate loop; the line is stored as typed
get_bitrate ==
    /\ pc = "bitrate"
    /\ UNCHANGED batchVars
    /\ \/ \E line \in BitrateLines :
            /\ settings' = IF line # <<>>
                           THEN SetItem(settings, "bitrate", line)
                           ELSE settings
            /\ Answered("Enter bitrate in kbps: ", AfterSettings)
            /\ UNCHANGED <<input_format, output_format, settings_calls,
                           naming_mode, mode>>
       \/ Cancel

\* get_naming_mode; an empty line counts as "1"
get_naming_mode ==
    /\ pc = "naming_mode"
    /\ UNCHANGED batchVars
    /\ \/ \E line \in NamingLines :
            LET choice == ParseInt(IF line # <<>> THEN line ELSE <<"1">>)
            IN  IF ~choice.ok THEN Reprompt("Please enter 1 or 2.")
                ELSE /\ naming_mode' = choice.val
                     /\ Answered("Select naming mode (1-2, default 1): ", "mode")
                     /\ UNCHANGED <<input_format, output_format, settings,
                                    settings_calls, mode>>
       \/ Cancel

\* the frame rate stored when the line is empty
DefaultFps == 15

\* get_gif_settings: the frames-per-second loop (float(fps))
get_fps ==
    /\ pc = "fps"
    /\ UNCHANGED batchVars
    /\ \/ \E line \in FpsLines :
            LET fps == ParseInt(line)
            IN  IF line # <<>> /\ ~fps.ok
                THEN Reprompt("Please enter a valid number.")
                ELSE /\ settings' = SetItem(settings, "fps",
                            IF line # <<>> THEN fps.val ELSE DefaultFps)
                     /\ Answered("Enter frames per second: ", "resize")
                     /\ UNCHANGED <<input_format, output_format,
                                    settings_calls, naming_mode, mode>>
       \/ Cancel

\* the width of resolution option 2
ScaleDownWidth == 720

\* settings['resize'] = None
NoResize == <<>>

\* get_gif_settings: the resolution loop; an empty line counts as "1".  A
\* resize is NoResize or the pair <<width, height>>, height None when the
\* aspect ratio is to be kept.
get_resize ==
    /\ pc = "resize"
    /\ UNCHANGED batchVars
    /\ \/ \E line \in MenuLines :
            LET choice == ParseInt(IF line # <<>> THEN line ELSE <<"1">>)
                Store(rs) ==
                    /\ settings' = SetItem(settings, "resize", rs)
                    /\ Answered("Select resolution option (1-3, default 1): ",
                                AfterSettings)
                    /\ UNCHANGED <<input_format, output_format,
                                   settings_calls, naming_mode, mode>>
            IN  IF ~choice.ok THEN Reprompt("Please enter a valid number.")
                ELSE IF choice.val = 1 THEN Store(NoResize)
                ELSE IF choice.val = 2 THEN Store(<<ScaleDownWidth, None>>)
                ELSE IF choice.val = 3
                THEN \E wline \in WidthLines, hline \in HeightLines :
                        LET width == ParseInt(wline)
                            height == ParseInt(hline)
                        IN  IF ~width.ok \/ ~height.ok
                            THEN Reprompt("Please enter a valid number.")
                            ELSE Store(<<width.val,
                                         IF height.val > 0 THEN height.val
                                         ELSE None>>)
                ELSE Reprompt("Please select 1-3.")
       \/ Cancel

\* get_conversion_mode
get_conversion_mode ==
    /\ pc = "mode"
    /\ UNCHANGED batchVars
    /\ \/ \E line \in MenuLines :
            LET choice == ParseInt(line)
            IN  IF ~choice.ok THEN Reprompt("Please enter a valid number.")
                ELSE IF choice.val \in {1, 2}
                THEN /\ mode' = choice.val
                     /\ Answered("Select mode (1-2): ",
                                 IF choice.val = 1 THEN "convert_all"
                                 ELSE "single")
                     /\ UNCHANGED <<input_format, output_format, settings,
                                    settings_calls, naming_mode>>
                ELSE Reprompt("Please select 1 or 2.")
       \/ Cancel

----------------------------------------------------------------------------
(* Conversion Executor *)

\* which step of a conversion the environment makes raise an Exception, if
\* the step is executed
Steps == {"none", "load", "transform", "export"}

\* width and height of the clips VideoFileClip decodes
ClipSizes == { <<1440, 1080>>, <<640, 360>> }

\* img.mode of the images Image.open decodes: full colour, grey, the two
\* with an alpha band, indexed, and indexed with an alpha band (a palette
\* TIFF with an extra sample opens as PA)
ImageModes == {"RGB", "RGBA", "LA", "P", "PA", "L"}

\* what the environment decides about one conversion of converter k
Envs(k) ==
    [raises : Steps,
     size : IF k = "video" THEN ClipSizes ELSE { <<0, 0>> },
     img_mode : IF k = "image" THEN ImageModes ELSE {""}]

\* input_path.exists()
exists(path) == path.dir = "input" /\ path.name \in dir

\* the first executed step that raises: load is always executed, the
\* transform only when the settings ask for one, the export last
FirstError(env, transforms) ==
    IF env.raises = "load" THEN "load"
    ELSE IF env.raises = "transform" /\ transforms THEN "transform"
    ELSE IF env.raises = "export" THEN "export"
    ELSE "none"

\* ExceptCatches with a handler for the errors of reading only
ExceptCatchesMut(error) == error = "load"

\* except Exception as e: every error a step raises is caught
ExceptCatches(error) == TRUE

\* SampleWidth with the signed 8-bit format left out of the first test
SampleWidthMut(pcm_format) ==
    IF pcm_format = "u8" THEN 1
    ELSE IF pcm_format = "s16" THEN 2
    ELSE IF pcm_format = "s32" THEN 4
    ELSE 0

\* convert_single_audio: the sample width set for a PCM format; 0 when
\* set_sample_width is not called
SampleWidth(pcm_format) ==
    IF pcm_format \in {"u8", "s8"} THEN 1
    ELSE IF pcm_format = "s16" THEN 2
    ELSE IF pcm_format = "s32" THEN 4
    ELSE 0

\* the part of a call's record that the try/except decides
Outcome(present, error) ==
    [exists |-> present,
     error |-> IF present THEN error ELSE "none",
     loaded |-> present,
     returned |-> present /\ error = "none",
     raised |-> present /\ error # "none" /\ ~ExceptCatches(error)]

convert_single_audio(input_path, output_path, fmt, sett, env) ==
    LET present == exists(input_path)
        pcm_format == Get(sett, "pcm_format", "u8")
        transforms ==
            IF fmt = "pcm"
            THEN ("channels" \in DOMAIN sett /\ sett["channels"] # None)
                 \/ SampleWidth(pcm_format) # 0
            ELSE Get(sett, "channels", None) # None
        error == FirstError(env, transforms)
    IN  Outcome(present, error) @@
        [input |-> input_path, output |-> output_path,
         output_format |-> fmt, settings |-> sett,
         sample_width |-> IF present /\ fmt = "pcm" /\ error # "load"
                          THEN SampleWidth(pcm_format) ELSE 0,
         src_size |-> <<0, 0>>, out_size |-> <<0, 0>>,
         src_mode |-> "", save_mode |-> "",
         clip |-> "None", opened |-> {}, closed |-> {}]

\* the pixel mode convert_single_image hands to img.save
ImageSaveMode(output_ext, img_mode) ==
    IF output_ext \in {"jpg", "jpeg"} /\ img_mode \in {"RGBA", "LA", "P"}
    THEN "RGB"
    ELSE IF output_ext = "png" /\ img_mode = "P" THEN "RGBA"
    ELSE img_mode

\* img.save raises for a mode the encoder cannot write: the JPEG encoder
\* writes neither an alpha band nor a palette.  What the other encoders
\* reject is left to env.raises.
EncoderRejects(output_ext, save_mode) ==
    output_ext \in {"jpg", "jpeg"} /\ save_mode \in {"RGBA", "LA", "P", "PA"}

convert_single_image(filename, input_ext, output_ext, env) ==
    LET input_path == Path("input", filename \o input_ext)
        output_path == Path("output", filename \o <<".", output_ext>>)
        present == exists(input_path)
        save_mode == ImageSaveMode(output_ext, env.img_mode)
        step == FirstError(env, save_mode # env.img_mode)
        error == IF step = "none" /\ EncoderRejects(output_ext, save_mode)
                 THEN "export" ELSE step
    IN  Outcome(present, error) @@
        [input |-> input_path, output |-> output_path,
         output_format |-> output_ext, settings |-> EmptyDict,
         sample_width |-> 0,
         src_size |-> <<0, 0>>, out_size |-> <<0, 0>>,
         src_mode |-> IF present /\ error # "load" THEN env.img_mode ELSE "",
         save_mode |-> IF present /\ error \in {"none", "export"}
                       THEN save_mode ELSE "",
         clip |-> "None", opened |-> {}, closed |-> {}]

\* resize with the width set and the height left as decoded
resizeMut(size, rs) ==
    IF rs[2] = None THEN <<rs[1], size[2]>> ELSE <<rs[1], rs[2]>>

\* clip.resize(width=width) keeps the aspect ratio: the height is scaled by
\* width / w and truncated; clip.resize((width, height)) sets both
resize(size, rs) ==
    IF rs[2] = None
    THEN <<rs[1], (size[2] * rs[1]) \div size[1]>>
    ELSE <<rs[1], rs[2]>>

\* FinallyClose without the close() call
FinallyCloseMut(clip, reader) == {}

\* finally: if clip is not None: clip.close().  The clips a call holds are
\* the decoded clip ("orig") and the clip resize returned ("derived"); both
\* read through the one reader VideoFileClip opened, which close() releases.
FinallyClose(clip, reader) == IF clip # "None" THEN {reader} ELSE {}

convert_single_video(input_path, output_path, fmt, sett, env) ==
    LET present == exists(input_path)
        rs == Get(sett, "resize", NoResize)
        transforms == rs # NoResize
        error == FirstError(env, transforms)
        reader == input_path.name
        \* the clip variable when the finally block runs
        clip == IF ~present \/ error = "load" THEN "None"
                ELSE IF transforms /\ error # "transform" THEN "derived"
                ELSE "orig"
    IN  Outcome(present, error) @@
        [input |-> input_path, output |-> output_path,
         output_format |-> fmt, settings |-> sett,
         sample_width |-> 0,
         src_size |-> IF present /\ error # "load" THEN env.size ELSE <<0, 0>>,
         out_size |-> IF clip = "derived" THEN resize(env.size, rs)
                      ELSE IF clip = "orig" THEN env.size ELSE <<0, 0>>,
         src_mode |-> "", save_mode |-> "",
         clip |-> clip,
         opened |-> IF present /\ error # "load" THEN {reader} ELSE {},
         closed |-> IF present THEN FinallyClose(clip, reader) ELSE {}]

----------------------------------------------------------------------------
(* Batch Runner *)

\* glob with the pattern "*"
globMut(d, input_ext) == d

\* self.input_dir.glob(f"*{input_ext}"): the names that end with input_ext
glob(d, input_ext) == {name \in d : EndsWith(name, input_ext)}

\* the orders in which a directory listing can enumerate a set of names
Listings(S) ==
    {f \in [1..Cardinality(S) -> S] :
        \A i, j \in 1..Cardinality(S) : i # j => f[i] # f[j]}

\* OutputFilename with input_path.name in place of input_path.stem
OutputFilenameMut(nmode, input_name, cnt, fmt) ==
    IF nmode = 1 THEN input_name \o <<".", fmt>>
    ELSE ToStr(cnt) \o <<".", fmt>>

\* convert_all_audio: output_filename
OutputFilename(nmode, input_name, cnt, fmt) ==
    IF nmode = 1 THEN stem(input_name) \o <<".", fmt>>
    ELSE ToStr(cnt) \o <<".", fmt>>

\* NextCounter without the increment
NextCounterMut(nmode, cnt) == cnt

\* convert_all_audio: counter after one iteration
NextCounter(nmode, cnt) == IF nmode = 1 THEN cnt ELSE cnt + 1

\* NextSuccessCount with the increment outside the if
NextSuccessCountMut(count, returned) == count + 1

\* if self.convert_single_*(...): success_count += 1
NextSuccessCount(count, returned) == IF returned THEN count + 1 ELSE count

\* PassedSettings with a fresh dict in place of the collected one
PassedSettingsMut(sett) == EmptyDict

\* the settings value convert_all_* hands to every conversion
PassedSettings(sett) == sett

\* the call one iteration of a batch makes for the enumerated name
BatchCall(name, env) ==
    CASE kind = "audio" ->
            convert_single_audio(
                Path("input", name),
                Path("output", OutputFilename(naming_mode, name, counter,
                                              output_format)),
                output_format, PassedSettings(settings), env)
      [] kind = "video" ->
            convert_single_video(
                Path("input", name),
                Path("output", stem(name) \o <<".", output_format>>),
                output_format, PassedSettings(settings), env)
      [] kind = "image" ->
            convert_single_image(stem(name), input_format, output_format, env)

\* the call run() makes for a typed filename
SingleCall(filename, env) ==
    CASE kind = "audio" ->
            convert_single_audio(
                Path("input", filename \o input_format),
                Path("output", filename \o <<".", output_format>>),
                output_format, settings, env)
      [] kind = "video" ->
            convert_single_video(
                Path("input", filename \o input_format),
                Path("output", filename \o <<".", output_format>>),
                output_format, settings, env)
      [] kind = "image" ->
            convert_single_image(filename, input_format, output_format, env)

\* what a convert_single_* call leaves behind
Called(r) ==
    /\ calls' = Append(calls, [input |-> r.input, output |-> r.output,
                               settings |-> r.settings,
                               ok |-> r.exists /\ r.error = "none",
                               returned |-> r.returned])
    /\ last' = r
    /\ written' = IF r.exists /\ r.error = "none"
                  THEN written \cup {r.output} ELSE written
    /\ open_readers' = (open_readers \cup r.opened) \ r.closed

\* convert_all_*: the enumeration and the return when nothing matches
convert_all ==
    /\ pc = "convert_all"
    /\ batch_calls' = batch_calls + 1
    /\ \E listing \in Listings(glob(dir, input_format)) :
            /\ input_files' = listing
            /\ IF listing = <<>>
               THEN /\ last_msg' = "No files found"
                    /\ pc' = "done"
               ELSE /\ last_msg' = "Found files to convert."
                    /\ pc' = "processing"
    /\ success_count' = 0
    /\ counter' = 0
    /\ idx' = 0
    /\ UNCHANGED <<ctorVars, kind, dir, interrupted, calls, last, written, open_readers,
                   summary>>
    /\ UNCHANGED promptVars

\* convert_all_*: one iteration of the for loop
convert_next ==
    /\ pc = "processing"
    /\ idx < Len(input_files)
    /\ \E env \in Envs(kind) :
            LET r == BatchCall(input_files[idx + 1], env)
            IN  /\ Called(r)
                /\ success_count' = IF r.raised THEN success_count
                                    ELSE NextSuccessCount(success_count,
                                                          r.returned)
                /\ pc' = IF r.raised THEN "crashed" ELSE pc
                /\ last_msg' = IF r.returned THEN last_msg
                               ELSE IF r.exists THEN "Error converting"
                               ELSE "Error: File not found."
    /\ counter' = IF kind = "audio" THEN NextCounter(naming_mode, counter)
                  ELSE counter
    /\ idx' = idx + 1
    /\ UNCHANGED <<ctorVars, kind, dir, interrupted, batch_calls, input_files, summary>>
    /\ UNCHANGED promptVars

\* convert_all_*: the summary after the loop
convert_finish ==
    /\ pc = "processing"
    /\ idx = Len(input_files)
    /\ summary' = <<success_count, Len(input_files)>>
    /\ last_msg' = "Conversion complete!"
    /\ pc' = "done"
    /\ UNCHANGED <<ctorVars, kind, dir, interrupted, batch_calls, input_files, idx,
                   counter, success_count, calls, last, written, open_readers>>
    /\ UNCHANGED promptVars

\* run(), mode 2: the filename prompt and the one conversion.  The prompt is
\* outside every try: an interrupt ends the process with the exception.
run_single ==
    /\ pc = "single"
    /\ \/ \E filename \in FilenameLines, env \in Envs(kind) :
            LET r == SingleCall(filename, env)
            IN  /\ Called(r)
                /\ pc' = IF r.raised THEN "crashed" ELSE "done"
                /\ last_msg' = IF r.raised THEN last_msg
                               ELSE IF r.returned THEN "Conversion successful!"
                               ELSE "Conversion failed."
                /\ interrupted' = interrupted
       \/ /\ interrupted' = TRUE
          /\ pc' = "killed"
          /\ UNCHANGED <<last_msg, calls, last, written, open_readers>>
    /\ UNCHANGED <<ctorVars, kind, dir, batch_calls, input_files, idx, counter,
                   success_count, summary>>
    /\ UNCHANGED promptVars

----------------------------------------------------------------------------
(* Specification *)

Next ==
    \/ Run
    \/ get_input_format
    \/ get_output_format
    \/ get_settings
    \/ get_pcm_format
    \/ get_sample_rate
    \/ get_channels
    \/ get_bitrate
    \/ get_naming_mode
    \/ get_fps
    \/ get_resize
    \/ get_conversion_mode
    \/ convert_all
    \/ convert_next
    \/ convert_finish
    \/ run_single

Spec == Init /\ [][Next]_vars

\* the construction of an AudioConverter and the start of its run()
NextConstruct ==
    \/ construct
    \/ Run

SpecConstruct == InitConstruct /\ [][NextConstruct]_vars

----------------------------------------------------------------------------
(* Properties *)

\* the batch runner was invoked in this run
InBatch == batch_calls > 0

\* the number of conversions that completed without error
OkCount(cs) == Cardinality({i \in 1..Len(cs) : cs[i].ok})

\* the name the call for enumeration position i is made for: the enumerated
\* name, which convert_all_images hands over as stem plus input extension
CalledFor(i) ==
    IF kind = "image" THEN stem(input_files[i]) \o input_format
    ELSE input_files[i]

\* C1: in a batch run over N enumerated files the runner makes one
\* conversion attempt per file, in order, and never stops early: no attempt
\* ends the run, a next attempt is always possible while files remain, and
\* the summary is printed only after N attempts.  success_count is at every
\* moment the number of attempts that completed without error (so a failed
\* file leaves it unchanged), and the summary reports that number and N.
C1_BatchCounts ==
    InBatch =>
        /\ pc \in {"processing", "done"}
        /\ Len(calls) = idx
        /\ idx <= Len(input_files)
        /\ \A i \in 1..Len(calls) : calls[i].input.name = CalledFor(i)
        /\ success_count = OkCount(calls)
        /\ (pc = "processing" /\ idx < Len(input_files)) => ENABLED convert_next
        /\ (pc = "done" /\ input_files # <<>>) =>
                /\ Len(calls) = Len(input_files)
                /\ summary = <<OkCount(calls), Len(input_files)>>

\* a batch of two files ended with the first failed and the second converted
C1_Witness ==
    /\ InBatch /\ pc = "done" /\ Len(input_files) = 2
    /\ ~calls[1].ok /\ calls[2].ok
    /\ summary = <<1, 2>>

\* C2: a single-file conversion never raises to its caller; it returns
\* False without attempting the load when the input path does not exist,
\* returns False when the load, transform or export step raised, and
\* returns True only when the file exists and no step raised.
C2_SingleNeverRaises ==
    /\ pc # "crashed"
    /\ calls # <<>> =>
        /\ ~last.raised
        /\ last.input.name \notin dir => (~last.returned /\ ~last.loaded)
        /\ last.error \in {"load", "transform", "export"} => ~last.returned
        /\ last.returned => (last.input.name \in dir /\ last.error = "none")
        /\ (last.input.name \in dir /\ last.error = "none") => last.returned
        /\ calls[Len(calls)].returned = last.returned

\* a conversion whose export step raised returned False
C2_Witness ==
    /\ calls # <<>> /\ last.input.name \in dir
    /\ last.error = "export" /\ ~last.returned

\* numeric-counter naming is in force for a batch of the audio converter
NumericNaming == kind = "audio" /\ InBatch /\ naming_mode # 1

\* C3: under numeric-counter naming the file at enumeration position i
\* (from 0) gets the name "i" followed by the output extension, whatever
\* the earlier conversions returned; so after N files the names are exactly
\* "0" .. "N-1", each used once.
C3_NumericNames ==
    NumericNaming =>
        /\ \A i \in 1..Len(calls) :
            LET name == calls[i].output.name
            IN  /\ suffix(name) = <<".", output_format>>
                /\ ParseInt(stem(name)) = [ok |-> TRUE, val |-> i - 1]
                /\ calls[i].output.dir = "output"
        /\ \A i, j \in 1..Len(calls) :
            i # j => calls[i].output # calls[j].output
        /\ counter = Len(calls)

\* the second file of a batch is named "1" after the first one failed
C3_Witness ==
    /\ NumericNaming /\ naming_mode = 2 /\ Len(calls) = 2
    /\ ~calls[1].ok
    /\ calls[2].output.name = <<"1", ".", output_format>>

\* preserve-stem naming is in force for a batch: always for images and
\* videos, under naming mode 1 for audio
PreserveStem == InBatch /\ (kind = "audio" => naming_mode = 1)

\* C4: under preserve-stem naming every file a batch processes gets the
\* output path output_dir / (stem of the input name + "." + output format):
\* the stem of the output name is the stem of the input name, and the
\* output lies directly in the output directory.
C4_PreserveStem ==
    PreserveStem =>
        \A i \in 1..Len(calls) :
            /\ calls[i].output.dir = "output"
            /\ calls[i].output.name =
                    stem(input_files[i]) \o <<".", output_format>>
            /\ stem(calls[i].output.name) = stem(input_files[i])
            /\ suffix(calls[i].output.name) = <<".", output_format>>

\* a batch processed a name whose stem itself holds a dot
C4_Witness ==
    /\ PreserveStem /\ calls # <<>>
    /\ \E i \in 1..Len(calls) :
        /\ RFindDot(stem(input_files[i])) > 0
        /\ calls[i].ok

\* no file of the input directory ends with the chosen input extension
NoMatch == \A name \in dir : ~EndsWith(name, input_format)

\* C5: when no file ends with the chosen input extension the batch run
\* finds nothing to convert (total 0), counts no success, makes no
\* single-file conversion, writes no output and returns normally with the
\* "no files found" report.
C5_ZeroMatch ==
    (InBatch /\ NoMatch) =>
        /\ pc = "done"
        /\ Len(input_files) = 0
        /\ success_count = 0
        /\ calls = <<>>
        /\ written = {}
        /\ last_msg = "No files found"

\* a batch ran over a directory that holds files, none of them matching
C5_Witness == InBatch /\ NoMatch /\ dir # {} /\ pc = "done"

\* C6: once an interrupt was delivered at a prompt the program has ended
\* (sys.exit at a menu or settings prompt, the uncaught exception at the
\* filename prompt): no step follows, and neither the batch runner nor a
\* conversion has run or will run.
C6_InterruptEndsRun ==
    interrupted =>
        /\ pc \in {"exited", "killed"}
        /\ ~ENABLED Next
        /\ batch_calls = 0
        /\ calls = <<>>
        /\ written = {}

\* the interrupt came at the conversion-mode prompt, all settings collected
C6_Witness ==
    /\ interrupted /\ pc = "exited"
    /\ kind = "audio" /\ naming_mode # 0 /\ mode = 0

\* positions of run() at which a prompt is open
PromptPcs ==
    {"input_format", "output_format", "settings", "pcm_format", "sample_rate",
     "channels", "bitrate", "naming_mode", "fps", "resize", "mode", "single"}

\* C7: a run goes Idle -> CollectingSettings -> Processing(0..total-1) ->
\* Done.  The settings are collected once (never for images, which have
\* none) and before the batch starts; once the batch runs no prompt is open
\* again; every conversion of the batch received the one settings value;
\* and the files are processed one at a time in enumeration order, one
\* conversion per enumerated file.
C7_Workflow ==
    /\ settings_calls <= 1
    /\ pc \in PromptPcs \cup {"start"} => (~InBatch /\ calls = <<>>)
    /\ InBatch =>
        /\ pc \in {"processing", "done"}
        /\ settings_calls = (IF kind = "image" THEN 0 ELSE 1)
        /\ batch_calls = 1
        /\ Len(calls) = idx
        /\ \A i \in 1..Len(calls) :
            /\ calls[i].input.name = CalledFor(i)
            /\ calls[i].settings = settings
        /\ \A i, j \in 1..Len(input_files) :
            i # j => input_files[i] # input_files[j]
        /\ pc = "done" => Len(calls) = Len(input_files)

\* a batch of two files ended, both converted under collected settings
C7_Witness ==
    /\ InBatch /\ pc = "done" /\ Len(calls) = 2
    /\ settings # EmptyDict
    /\ calls[1].settings = settings /\ calls[2].settings = settings

\* C8: when convert_single_video has returned, every reader the call
\* opened is released, on the success path, after an error in load, resize
\* or write, and after the early return; so no reader is open between the
\* conversions of a batch, also when resize replaced the clip variable.
C8_ClipsReleased ==
    /\ open_readers = {}
    /\ last.opened \subseteq last.closed
    /\ (kind = "video" /\ calls # <<>> /\ last.input.name \in dir
            /\ last.error # "load") =>
                last.closed = {last.input.name}

\* the write step raised after resize had replaced the clip variable
C8_Witness ==
    /\ kind = "video" /\ last.clip = "derived" /\ last.error = "export"
    /\ last.opened # {} /\ open_readers = {}

\* a conversion to PCM that got past the load
PcmConverted ==
    /\ kind = "audio" /\ calls # <<>>
    /\ last.output_format = "pcm" /\ last.loaded /\ last.error # "load"

\* C9: in a PCM export the sample width follows the selected bit depth:
\* s16 gives 2 bytes, u8 and s8 give 1 byte, s32 gives 4 bytes; and every
\* bit depth the settings prompt stores is one of these four.
C9_PcmSampleWidth ==
    /\ "pcm_format" \in DOMAIN settings =>
            settings["pcm_format"] \in {"u8", "s8", "s16", "s32"}
    /\ PcmConverted =>
        LET depth == last.settings["pcm_format"]
            width == last.sample_width
        IN  /\ depth = "s16" => width = 2
            /\ depth \in {"u8", "s8"} => width = 1
            /\ depth = "s32" => width = 4
            /\ width \in {1, 2, 4}

\* a file was exported as signed 8-bit PCM with a sample width of 1 byte
C9_Witness ==
    /\ PcmConverted /\ last.returned
    /\ last.settings["pcm_format"] = "s8" /\ last.sample_width = 1

\* a 1440 x 1080 clip was resized under resolution option 2 (width 720,
\* aspect ratio kept)
ScaledDown1440 ==
    /\ kind = "video" /\ calls # <<>>
    /\ last.clip = "derived"
    /\ last.src_size = <<1440, 1080>>
    /\ last.settings["resize"] = <<ScaleDownWidth, None>>

\* C10 as stated: scale-to-max-width 720 turns a 1440 x 1080 clip into a
\* 720 x 360 clip.
C10_Original == ScaledDown1440 => last.out_size = <<720, 360>>

\* C10, amended: scale-to-max-width 720 turns a 1440 x 1080 clip into a
\* 720 x 540 clip, which keeps the aspect ratio.
C10_ScaleTo720 ==
    ScaledDown1440 =>
        /\ last.out_size = <<720, 540>>
        /\ last.out_size[1] * last.src_size[2]
                = last.out_size[2] * last.src_size[1]

\* such a clip was resized and then written
C10_Witness == ScaledDown1440 /\ last.returned

\* the --ffmpeg flag names a directory that holds ffmpeg or ffmpeg.exe
FlagHit ==
    /\ ffmpeg_env.custom_path # NoPath
    /\ \E name \in {"ffmpeg", "ffmpeg.exe"} :
            <<ffmpeg_env.custom_path, name>> \in ffmpeg_env.files

\* positions of a list of directories that hold this system's executable
ExeAt(dirs) ==
    {i \in 1..Len(dirs) : <<dirs[i], ffmpeg_exe(ffmpeg_env)>> \in ffmpeg_env.files}

\* C11: the ffmpeg directory is the --ffmpeg directory when that holds the
\* executable, else the first directory of the search path that holds it,
\* else the first of the well-known directories that holds it; a flag
\* directory without the executable falls through.  When no source holds
\* it the path is unresolved, the warning is printed, and run() starts.
C11_FfmpegOrder ==
    (kind = "audio" /\ pc # "new") =>
        LET onPath == ExeAt(ffmpeg_env.search_path)
            common == common_paths(ffmpeg_env)
            onCommon == ExeAt(common)
        IN  /\ FlagHit => ffmpeg_path = ffmpeg_env.custom_path
            /\ (~FlagHit /\ onPath # {}) =>
                    /\ ffmpeg_path \in {ffmpeg_env.search_path[i] : i \in onPath}
                    /\ \A i \in onPath :
                        ffmpeg_env.search_path[i] = ffmpeg_path
                            \/ \E j \in onPath : j < i
            /\ (~FlagHit /\ onPath = {} /\ onCommon # {}) =>
                    /\ ffmpeg_path \in {common[i] : i \in onCommon}
                    /\ \A i \in onCommon :
                        common[i] = ffmpeg_path \/ \E j \in onCommon : j < i
            /\ (~FlagHit /\ onPath = {} /\ onCommon = {}) =>
                    ffmpeg_path = NoPath
            /\ warned <=> ffmpeg_path = NoPath
            /\ (warned /\ pc = "start") =>
                    (last_msg = "Warning: ffmpeg not found." /\ ENABLED Run)

\* the flag directory lacks the executable and the search path supplied it,
\* ahead of a well-known directory that holds it too
C11_Witness ==
    /\ kind = "audio" /\ pc = "start"
    /\ ffmpeg_env.custom_path = FlagDir /\ ~FlagHit
    /\ ffmpeg_path = PathDir
    /\ ExeAt(common_paths(ffmpeg_env)) # {}

\* C12 as stated: the step that delivers an interrupt at a prompt prints
\* nothing, the last line on the terminal stays what it was.
C12_Original ==
    [][(~interrupted /\ interrupted') => last_msg' = last_msg]_vars

\* C12: an interrupt at a prompt ends the process with at most one more
\* line of output.  At a menu or settings prompt the handler prints
\* "Operation cancelled." and exits; at the filename prompt, which no
\* handler guards, the process ends on the exception with the prompt of the
\* conversion-mode menu still the last line printed.  No hint, prompt or
\* summary follows, since no step follows.
C12_InterruptOutput ==
    interrupted =>
        /\ ~ENABLED Next
        /\ \/ pc = "exited" /\ last_msg = "Operation cancelled."
           \/ pc = "killed" /\ mode = 2 /\ last_msg = "Select mode (1-2): "

\* the interrupt came at the very first prompt of a video run
C12_Witness ==
    /\ interrupted /\ pc = "exited" /\ last_msg = "Operation cancelled."
    /\ kind = "video" /\ input_format = <<>>

\* the elements of a list, as a set
Range(seq) == {seq[i] : i \in 1..Len(seq)}

\* C13: every numbered menu returns only a selection inside its offered
\* range: each value a menu has stored is one of the values its entries
\* stand for (or the variable still holds its initial value), so an
\* out-of-range number is never returned.
C13_MenuInRange ==
    /\ input_format \in Range(supported_formats(kind)) \cup {<<>>}
    /\ output_format \in Range(output_formats(kind)) \cup {""}
    /\ "pcm_format" \in DOMAIN settings =>
            settings["pcm_format"] \in Range(pcm_formats)
    /\ "channels" \in DOMAIN settings =>
            settings["channels"] \in {1, 2, None}
    /\ naming_mode \in {0, 1, 2}
    /\ mode \in {0, 1, 2}

\* C14: for PCM output the sample rate stored in the settings is a positive
\* integer, 16000 unless a rate was typed; a line that is not a positive
\* integer is never stored.
C14_SampleRatePositive ==
    (kind = "audio" /\ "sample_rate" \in DOMAIN settings) =>
        /\ output_format = "pcm"
        /\ settings["sample_rate"] \in Nat \ {0}

\* the pixel modes that are indexed or carry an alpha band
IndexedOrAlpha == {"RGBA", "LA", "P", "PA"}

\* C15: the pixel mode handed to img.save is a fixed function of the target
\* format and the source mode: for jpg and jpeg a source in RGBA, LA or P
\* goes out as RGB and the encoder never gets an indexed or alpha-bearing
\* image; for png a source in P goes out as RGBA; every other combination
\* goes out in the source mode.
C15_EncoderMode ==
    (kind = "image" /\ last.save_mode # "") =>
        LET fmt == last.output_format
            src == last.src_mode
            out == last.save_mode
        IN  /\ fmt \in {"jpg", "jpeg"} =>
                    /\ src \in {"RGBA", "LA", "P"} => out = "RGB"
                    /\ out \notin IndexedOrAlpha
            /\ (fmt = "png" /\ src = "P") => out = "RGBA"
            /\ ~(fmt \in {"jpg", "jpeg"} /\ src \in IndexedOrAlpha)
                 /\ ~(fmt = "png" /\ src = "P") => out = src

\* C16: within one batch distinct enumerated files get distinct output
\* paths, under both naming modes, whatever dots their names hold: no
\* two conversions of the batch write to the same path.
C16_DistinctOutputs ==
    InBatch =>
        \A i, j \in 1..Len(calls) :
            i # j => calls[i].output # calls[j].output

\* C17: in a batch of images the path convert_single_image rebuilds from
\* the stem and the input extension is the path of the enumerated file the
\* call was made for, so each matched file is the one opened: never
\* reported as not found, never another file.
C17_RebuiltPath ==
    (kind = "image" /\ InBatch) =>
        \A i \in 1..Len(calls) :
            /\ calls[i].input = Path("input", input_files[i])
            /\ calls[i].exists

====
